---------------------------- MODULE Spec2Model ----------------------------
(***************************************************************************)
(* Model of hooks/tk-houdini_actions.py: the HoudiniActions loader hook.   *)
(*                                                                         *)
(* The hook has three entry points: generate_actions (a pure function of   *)
(* its arguments), execute_action (an if-chain that dispatches an action   *)
(* name to one helper, which mutates the host scene through createNode     *)
(* calls) and execute_multiple_actions (a loop over execute_action).       *)
(* The host application is the environment: whether a path exists, which   *)
(* createNode calls raise, what the user answers in a dialog and what a    *)
(* folder lists are inputs drawn from bounded sets.                        *)
(* The scene is the list of node types in creation order; parameter       *)
(* values, node names, wiring and layout are left out.  get_publish_path   *)
(* is inherited from the hook base class and taken to return a path.       *)
(***************************************************************************)
EXTENDS Naturals, Sequences, FiniteSets

VARIABLES
    request,    \* arguments of the latest generate_actions call
    instances,  \* list returned by the latest generate_actions call
    scene,      \* host node graph: the node types, in creation order
    last,       \* record of the latest direct execute_action call
    pc,         \* position of the hook call: idle, generated, executed,
                \* or running/returned/raised for execute_multiple_actions
    batch,      \* the actions list passed to execute_multiple_actions
    idx,        \* number of items the for loop has taken from batch
    calls,      \* execute_action calls made by the loop, in order
    error       \* exception that left execute_multiple_actions, or "none"

vars == <<request, instances, scene, last, pc, batch, idx, calls, error>>

genVars == <<request, instances>>
execVars == <<scene, last>>
batchVars == <<pc, batch, idx, calls, error>>

----------------------------------------------------------------------------
(* Bounds of the model *)

\* longest actions list handed to generate_actions
MaxLen == 2
\* longest actions list handed to execute_multiple_actions
MaxActions == 2
\* longest folder listing read by _materialx_folder
MaxFiles == 2
\* a direct execute_action call is made in a scene of at most this many nodes
MaxScene == 1
\* highest createNode call of one execute_action call that the host can fail
MaxFailIdx == 6

----------------------------------------------------------------------------
(* Names *)

Range(s) == {s[i] : i \in 1..Len(s)}

\* F applied to the value of x, with x evaluated once
With(x, F(_)) == CHOOSE r \in {F(v) : v \in {x}} : TRUE

SeqUpTo(S, n) == UNION {[1..k -> S] : k \in 0..n}

\* the ten action names the hook knows, in the order generate_actions tests them
KnownNames ==
    <<"merge", "file_sop", "import", "stage_import", "file_cop",
      "materialx_image", "materialx_folder", "component_builder",
      "usd_reference", "usd_sublayer">>

\* an action name of the configuration that this hook does not implement
UnknownName == "reference"

AllNames == Range(KnownNames) \cup {UnknownName}

UiAreas == {"main", "details", "history"}

\* two publish records; the hook reads their path and names, the model
\* tells them apart
Publishes == {"publish_a", "publish_b"}

----------------------------------------------------------------------------
(* generate_actions *)

ActionInstance(n, caption, description) ==
    [name |-> n, params |-> "None", caption |-> caption,
     description |-> description]

\* `if "<n>" in actions: action_instances.append({...})'
AlwaysAppend(action_instances, actions, inst) ==
    Append(action_instances, inst)

AppendIfIn(action_instances, actions, inst) ==
    IF inst.name \in Range(actions)
    THEN Append(action_instances, inst)
    ELSE action_instances

generate_actions(sg_publish_data, actions, ui_area) ==
    LET a0 == <<>>
        a1 == AppendIfIn(a0, actions, ActionInstance("merge", "Merge",
                "This will merge the item into the scene."))
        a2 == AppendIfIn(a1, actions, ActionInstance("file_sop",
                "Import as file node",
                "This will import the item into the scene through a file node."))
        a3 == AppendIfIn(a2, actions, ActionInstance("import", "Import",
                "Import the Alembic cache file into a geometry network."))
        a4 == AppendIfIn(a3, actions, ActionInstance("stage_import",
                "Stage import",
                "Import the Alembic cache file into the stage."))
        a5 == AppendIfIn(a4, actions, ActionInstance("file_cop", "File COP",
                "Load an image or image sequence via File COP."))
        a6 == AppendIfIn(a5, actions, ActionInstance("materialx_image",
                "Import as MaterialX image",
                "Load image in a MaterialX node and add it to stage context."))
        a7 == AppendIfIn(a6, actions, ActionInstance("materialx_folder",
                "Import as MaterialX images",
                "Load texture folder as MaterialX image nodes and add it to stage context."))
        a8 == AppendIfIn(a7, actions, ActionInstance("component_builder",
                "Create component builder",
                "Creates a configured component builder for shading work."))
        a9 == AppendIfIn(a8, actions, ActionInstance("usd_reference",
                "Reference",
                "This will create a reference node in the stage context."))
        a10 == AppendIfIn(a9, actions, ActionInstance("usd_sublayer",
                "Sublayer",
                "This will create a sublayer node in the stage context."))
    IN  a10

\* every name some call of generate_actions returns
GeneratableNames ==
    {n \in AllNames :
        \E i \in 1..Len(generate_actions("publish_a", <<n>>, "main")) :
            generate_actions("publish_a", <<n>>, "main")[i].name = n}

\* the loader calls generate_actions with the arguments in request
GenerateActions ==
    /\ pc = "idle"
    /\ instances' = generate_actions(request.sg_publish_data, request.actions,
                                     request.ui_area)
    /\ pc' = "generated"
    /\ UNCHANGED <<request, execVars, batch, idx, calls, error>>

----------------------------------------------------------------------------
(* The host application, as seen by one execute_action call *)

\* failures the host's createNode can raise; only the first is caught anywhere
FailKinds == {"OperationFailed", "PermissionError"}

\* sets of createNode calls (counted per execute_action call) that raise
FailSets == (SUBSET (1..2)) \cup {{i} : i \in 3..MaxFailIdx}

\* a directory entry: "<stem>.<udim>.exr" (dots = 2) or "<stem>.exr" (dots = 1)
Files ==
    {[stem |-> "Normal", udim |-> 1001, dots |-> 2],
     [stem |-> "Normal", udim |-> 1002, dots |-> 2],
     [stem |-> "Displacement", udim |-> 1001, dots |-> 2],
     [stem |-> "BaseColor", udim |-> 0, dots |-> 1]}

\* os.listdir returns each entry once
ListingsUpTo(n) ==
    {l \in SeqUpTo(Files, n) :
        \A i, j \in 1..Len(l) : i # j => l[i] # l[j]}

Listings == ListingsUpTo(MaxFiles)

DefaultEnv ==
    [exists |-> TRUE,          \* os.path.exists(path)
     mergeFails |-> FALSE,     \* hou.hipFile.merge raises
     merged |-> 1,             \* nodes the merged hip file brings in
     fails |-> {},             \* createNode calls that raise
     failKind |-> "OperationFailed",
     defaults |-> 0,           \* children the host puts in a new geo node
     pane |-> FALSE,           \* a current network editor tab exists
     listing |-> <<>>,         \* os.listdir(path)
     chosen |-> FALSE,         \* the material menu returned a node
     choice |-> 0,             \* button index of the Yes/No dialog
     surface |-> FALSE,        \* material has a mtlxstandard_surface child
     displacement |-> FALSE]   \* material has a mtlxdisplacement child

WithFailures(E, F, P) ==
    {[e EXCEPT !.pane = p] : e \in E, p \in P}
    \cup {[e EXCEPT !.fails = f, !.failKind = k] :
            e \in E, f \in F \ {{}}, k \in FailKinds}

\* what the user and the picked material answer in _materialx_folder
Answers ==
    [chosen : BOOLEAN, choice : 0..1, surface : BOOLEAN, displacement : BOOLEAN]

\* the host inputs that the helper of action `name' reads: F the sets of
\* failing createNode calls, P the pane states, L the folder listings, A the
\* answers
EnvOf(name, F, P, L, A) ==
    CASE name = "merge" ->
            {[DefaultEnv EXCEPT !.exists = x, !.mergeFails = m, !.merged = n] :
                x \in BOOLEAN, m \in BOOLEAN, n \in 0..1}
      [] name \in {"import", "file_sop"} ->
            WithFailures({[DefaultEnv EXCEPT !.defaults = d] : d \in 0..1}, F, P)
      [] name \in {"stage_import", "file_cop", "component_builder",
                   "usd_reference", "usd_sublayer"} ->
            WithFailures({DefaultEnv}, F, P)
      [] name = "materialx_image" ->
            WithFailures({[DefaultEnv EXCEPT !.chosen = c] : c \in BOOLEAN}, F, P)
      [] name = "materialx_folder" ->
            WithFailures({[DefaultEnv EXCEPT !.listing = l, !.chosen = a.chosen,
                                             !.choice = a.choice,
                                             !.surface = a.surface,
                                             !.displacement = a.displacement] :
                l \in L, a \in A}, F, P)
      [] OTHER -> {DefaultEnv}

\* the host as a direct execute_action call can meet it
EnvFor(name) == EnvOf(name, FailSets, BOOLEAN, Listings, Answers)

\* the host as the calls of one execute_multiple_actions loop meet it: the
\* loop sees of a call only the scene it leaves and the exception it raises
BatchEnvFor(name) ==
    EnvOf(name, {{}, {1}, {2}}, {FALSE}, ListingsUpTo(1),
          {a \in Answers : a.surface = a.displacement /\ (a.choice = 0) = a.surface})

\* what one execute_action call has done so far
Enter(s) ==
    [scene |-> s,          \* the node graph
     ncreate |-> 0,        \* createNode calls made
     failed |-> <<>>,      \* the createNode calls that raised, and with what
     raised |-> "none",    \* the exception in flight
     helpers |-> <<>>,     \* helpers entered
     merges |-> <<>>,      \* hou.hipFile.merge calls
     paths |-> <<>>,       \* file_paths_to_load of _materialx_folder
     notes |-> 0,          \* sticky notes created
     shown |-> "none"]     \* node framed by _show_node

Raise(h0, exc) ==
    With(h0, LAMBDA h :
        IF h.raised = "none" THEN [h EXCEPT !.raised = exc] ELSE h)

Call(h, helper) == [h EXCEPT !.helpers = Append(@, helper)]

\* <context>.createNode(type, ...): the node is added unless the host raises
createNode(h0, e, type) ==
    With(h0, LAMBDA h :
        IF h.raised # "none" THEN h
        ELSE LET k == h.ncreate + 1 IN
             IF k \in e.fails
             THEN [h EXCEPT !.ncreate = k, !.raised = e.failKind,
                            !.failed = Append(@, [call |-> k, exc |-> e.failKind])]
             ELSE [h EXCEPT !.ncreate = k, !.scene = Append(@, type)])

\* the host fills a new geo node with its default children
RECURSIVE Repeat(_, _)
Repeat(x, n) == IF n = 0 THEN <<>> ELSE <<x>> \o Repeat(x, n - 1)

createGeo(h, e) ==
    With(createNode(h, e, "geo"), LAMBDA g :
        IF g.raised # "none" THEN g
        ELSE [g EXCEPT !.scene = @ \o Repeat("geo_child", e.defaults)])

NotGeoChild(t) == t # "geo_child"

\* `for child in geo_node.children(): child.destroy()'
destroyChildren(h0) ==
    With(h0, LAMBDA h :
        IF h.raised # "none" THEN h
        ELSE [h EXCEPT !.scene = SelectSeq(@, NotGeoChild)])

\* _get_current_network_panetab: the current network editor tab, if any
_get_current_network_panetab(e) == e.pane

\* _show_node: select and frame the node when a network pane is current
_show_node(h0, e, type) ==
    With(h0, LAMBDA h :
        IF h.raised # "none" THEN h
        ELSE IF ~_get_current_network_panetab(e) THEN h
        ELSE [h EXCEPT !.shown = type])

\* _material_selection_menu: a material subnet, or nothing
_material_selection_menu(e) == e.chosen

----------------------------------------------------------------------------
(* The helpers.  Each takes the call record h and the host inputs e; once  *)
(* h.raised is set every later host call is skipped, as an exception       *)
(* unwinds the helper.                                                     *)

\* hou.hipFile.merge(path, node_pattern="*", overwrite_on_conflict=False,
\*                   ignore_load_warnings=False)
MergeCall(overwrite) ==
    [node_pattern |-> "*", overwrite_on_conflict |-> overwrite,
     ignore_load_warnings |-> FALSE]

hipFile_merge(h, e, overwrite) ==
    LET m == [h EXCEPT !.merges = Append(@, MergeCall(overwrite))] IN
    IF e.mergeFails THEN Raise(m, "OperationFailed")
    ELSE [m EXCEPT !.scene = @ \o Repeat("merged", e.merged)]

_merge_unchecked(h, e) ==
    hipFile_merge(Call(h, "_merge"), e, TRUE)

_merge(h, e) ==
    LET c == Call(h, "_merge") IN
    IF ~e.exists THEN Raise(c, "File not found on disk")
    ELSE hipFile_merge(c, e, FALSE)

\* try: geo_node = obj_context.createNode("geo", name)
\* except hou.OperationFailed: ... createNode("geo", name) at /obj
createGeoWithFallback(h, e) ==
    With(createGeo(h, e), LAMBDA t :
        IF t.raised = "OperationFailed"
        THEN createGeo([t EXCEPT !.raised = "none"], e)
        ELSE t)

_import(h, e) ==
    LET c == Call(h, "_import")
        geo_node == destroyChildren(createGeoWithFallback(c, e))
        alembic_sop == createNode(geo_node, e, "alembic")
    IN  _show_node(alembic_sop, e, "alembic")

_stage_import(h, e) ==
    LET c == Call(h, "_stage_import")
        sop_create_node == createNode(c, e, "sopcreate")
        alembic_node == createNode(sop_create_node, e, "alembic")
    IN  \* try: _show_node(...) except UnboundLocalError: pass
        With(_show_node(alembic_node, e, "sopcreate"), LAMBDA shown :
            IF shown.raised = "UnboundLocalError"
            THEN [shown EXCEPT !.raised = "none"]
            ELSE shown)

_file_sop(h, e) ==
    LET c == Call(h, "_file_sop")
        geo_node == destroyChildren(createGeoWithFallback(c, e))
        file_sop == createNode(geo_node, e, "file")
    IN  _show_node(file_sop, e, "file")

_usd_reference_twice(h, e) ==
    LET c == Call(h, "_usd_reference")
        reference_node == createNode(createNode(c, e, "reference"), e, "reference")
    IN  _show_node(reference_node, e, "reference")

_usd_reference(h, e) ==
    LET c == Call(h, "_usd_reference")
        reference_node == createNode(c, e, "reference")
    IN  _show_node(reference_node, e, "reference")

_materialx_image(h, e) ==
    LET c == Call(h, "_materialx_image") IN
    IF ~_material_selection_menu(e) THEN c
    ELSE _show_node(createNode(c, e, "mtlximage"), e, "mtlximage")

\* the first loop of _materialx_folder: new_filename is assigned only for an
\* entry with two dots and read for every entry; acc.name = "" is unbound
RECURSIVE ListLoop(_, _, _)
ListLoop(listing, i, acc0) ==
    With(acc0, LAMBDA acc :
        IF i > Len(listing) \/ acc.raised # "none" THEN acc
        ELSE LET file == listing[i]
                 new_filename == IF file.dots = 2 THEN file.stem ELSE acc.name
             IN  IF new_filename = ""
                 THEN [acc EXCEPT !.raised = "UnboundLocalError"]
                 ELSE ListLoop(listing, i + 1,
                        [acc EXCEPT !.name = new_filename,
                                    !.paths = IF new_filename \in Range(@) THEN @
                                              ELSE Append(@, new_filename)]))

FilePathsToLoad(listing) ==
    ListLoop(listing, 1, [name |-> "", paths |-> <<>>, raised |-> "none"])

\* `for file_path in file_paths_to_load: material_node.createNode("mtlximage", ...)'
RECURSIVE CreateImages(_, _, _)
CreateImages(h0, e, i) ==
    With(h0, LAMBDA h :
        IF i > Len(h.paths) THEN h
        ELSE CreateImages(createNode(h, e, "mtlximage"), e, i + 1))

\* the second loop of _materialx_folder: the nodes it adds for one image node
WireImage(h, e, stem) ==
    LET d == IF stem = "Displacement" /\ e.displacement
             THEN createNode(h, e, "mtlxrange") ELSE h
    IN  IF stem = "Normal" THEN createNode(d, e, "mtlxnormalmap") ELSE d

RECURSIVE WireImages(_, _, _)
WireImages(h0, e, i) ==
    With(h0, LAMBDA h :
        IF i > Len(h.paths) THEN h
        ELSE WireImages(WireImage(h, e, h.paths[i]), e, i + 1))

\* from the material menu on: the image nodes, the dialog, the wiring
LoadImages(p, e) ==
    IF ~_material_selection_menu(e) THEN p
    ELSE LET created == CreateImages(p, e, 1)
             \* _show_node(image_node): image_node is the loop variable
             framed == IF Len(p.paths) = 0
                       THEN Raise(created, "UnboundLocalError")
                       ELSE _show_node(created, e, "mtlximage")
         IN  With(framed, LAMBDA shown :
                IF shown.raised # "none" THEN shown
                ELSE IF e.choice # 0 THEN shown
                ELSE IF ~e.surface THEN shown
                ELSE WireImages(shown, e, 1))

_materialx_folder(h, e) ==
    With(FilePathsToLoad(e.listing), LAMBDA loaded :
        IF loaded.raised # "none"
        THEN Raise(Call(h, "_materialx_folder"), loaded.raised)
        ELSE With([Call(h, "_materialx_folder") EXCEPT !.paths = loaded.paths],
                  LAMBDA p : LoadImages(p, e)))

_component_builder(h, e) ==
    LET c == Call(h, "_component_builder")
        component_geometry_node == createNode(c, e, "componentgeometry")
        material_library == createNode(component_geometry_node, e, "materiallibrary")
        component_material_node == createNode(material_library, e, "componentmaterial")
        component_output_node == createNode(component_material_node, e, "componentoutput")
        sgtk_usd_rop_node == createNode(component_output_node, e, "sgtk_usd_rop")
        sticky_note ==
            With(createNode(sgtk_usd_rop_node, e, "file"), LAMBDA file_node :
                IF file_node.raised # "none" THEN file_node
                ELSE [file_node EXCEPT !.notes = @ + 1])
    IN  \* try: _show_node(...) except UnboundLocalError: pass
        With(_show_node(sticky_note, e, "sgtk_usd_rop"), LAMBDA shown :
            IF shown.raised = "UnboundLocalError"
            THEN [shown EXCEPT !.raised = "none"]
            ELSE shown)

_usd_sublayer_swallow(h, e) ==
    LET c == Call(h, "_usd_sublayer")
        sublayer_node == createNode(c, e, "sublayer")
    IN  _show_node([sublayer_node EXCEPT !.raised = "none"], e, "sublayer")

_usd_sublayer(h, e) ==
    LET c == Call(h, "_usd_sublayer")
        sublayer_node == createNode(c, e, "sublayer")
    IN  _show_node(sublayer_node, e, "sublayer")

\* comps = [c for c in img_context.children() if c.type().name() == "img"]
Comps(h) == SelectSeq(h.scene, LAMBDA t : t = "img")

_file_cop(h, e) ==
    LET c == Call(h, "_file_cop")
        file_cop ==
            With(createNode(c, e, "file"), LAMBDA t :
                IF t.raised = "OperationFailed"
                THEN LET x == [t EXCEPT !.raised = "none"]
                         img_network == IF Len(Comps(x)) > 0 THEN x
                                        ELSE createNode(x, e, "img")
                     IN  createNode(img_network, e, "file")
                ELSE t)
    IN  _show_node(file_cop, e, "file")

----------------------------------------------------------------------------
(* execute_action *)

\* `if name == "<key>":'
NameIsOrStartsWith(name, key) ==
    name = key \/ (key = "import" /\ name = "stage_import")

NameIsOrDefault(name, key) ==
    name = key \/ (key = "merge" /\ name \notin Range(KnownNames))

NameIs(name, key) == name = key

\* an exception of an earlier helper leaves execute_action
Running(h) == h.raised = "none"

\* the chain of `if name == "<key>": self._<key>(path, sg_publish_data)'
execute_action(name, params, sg_publish_data, e, s) ==
    LET h0 == Enter(s)
        h1 == With(h0, LAMBDA h :
                IF Running(h) /\ NameIs(name, "merge") THEN _merge(h, e) ELSE h)
        h2 == With(h1, LAMBDA h :
                IF Running(h) /\ NameIs(name, "file_sop") THEN _file_sop(h, e) ELSE h)
        h3 == With(h2, LAMBDA h :
                IF Running(h) /\ NameIs(name, "materialx_image") THEN _materialx_image(h, e) ELSE h)
        h4 == With(h3, LAMBDA h :
                IF Running(h) /\ NameIs(name, "materialx_folder") THEN _materialx_folder(h, e) ELSE h)
        h5 == With(h4, LAMBDA h :
                IF Running(h) /\ NameIs(name, "component_builder") THEN _component_builder(h, e) ELSE h)
        h6 == With(h5, LAMBDA h :
                IF Running(h) /\ NameIs(name, "usd_reference") THEN _usd_reference(h, e) ELSE h)
        h7 == With(h6, LAMBDA h :
                IF Running(h) /\ NameIs(name, "usd_sublayer") THEN _usd_sublayer(h, e) ELSE h)
        h8 == With(h7, LAMBDA h :
                IF Running(h) /\ NameIs(name, "import") THEN _import(h, e) ELSE h)
        h9 == With(h8, LAMBDA h :
                IF Running(h) /\ NameIs(name, "stage_import") THEN _stage_import(h, e) ELSE h)
        h10 == With(h9, LAMBDA h :
                IF Running(h) /\ NameIs(name, "file_cop") THEN _file_cop(h, e) ELSE h)
    IN  h10

NoCall ==
    [called |-> FALSE, name |-> "", params |-> "None", sg_publish_data |-> "publish_a",
     exists |-> TRUE, before |-> <<>>, ncreate |-> 0, failed |-> <<>>,
     raised |-> "none", helpers |-> <<>>, merges |-> <<>>, paths |-> <<>>,
     notes |-> 0, shown |-> "none"]

\* a direct call of execute_action, with the host's answers e
ExecuteAction ==
    /\ pc = "idle"
    /\ \E name \in AllNames, sg \in Publishes :
         \E e \in EnvFor(name) :
         \E h \in {execute_action(name, "None", sg, e, scene)} :
            /\ scene' = h.scene
            /\ last' = [called |-> TRUE, name |-> name, params |-> "None",
                        sg_publish_data |-> sg, exists |-> e.exists,
                        before |-> scene, ncreate |-> h.ncreate,
                        failed |-> h.failed, raised |-> h.raised,
                        helpers |-> h.helpers, merges |-> h.merges,
                        paths |-> h.paths, notes |-> h.notes, shown |-> h.shown]
    /\ pc' = "executed"
    /\ UNCHANGED <<genVars, batch, idx, calls, error>>

----------------------------------------------------------------------------
(* execute_multiple_actions *)

Params == {"None"}

Items == [name : AllNames, params : Params, sg_publish_data : Publishes]

\* `for single_action in actions:' the item the loop takes after idx items
NextItemReversed(actions, i) == actions[Len(actions) - i]

NextItem(actions, i) == actions[i + 1]

\* the loop has no try: an exception of execute_action leaves the loop
ContinueAfter(h) == "running"

AfterCall(h) == IF h.raised # "none" THEN "raised" ELSE "running"

\* the caller enters execute_multiple_actions(actions)
ExecuteMultipleActions ==
    /\ pc = "idle"
    /\ \E actions \in SeqUpTo(Items, MaxActions) :
          batch' = actions
    /\ pc' = "running"
    /\ idx' = 0
    /\ calls' = <<>>
    /\ error' = "none"
    /\ UNCHANGED <<genVars, execVars>>

\* one iteration of the loop: the whole execute_action call for one item
Iterate ==
    /\ pc = "running"
    /\ idx < Len(batch)
    /\ LET single_action == NextItem(batch, idx)
           name == single_action.name
           sg_publish_data == single_action.sg_publish_data
           params == single_action.params
       IN  \E e \in BatchEnvFor(name) :
           \E h \in {execute_action(name, params, sg_publish_data, e, scene)} :
              /\ calls' = Append(calls, [name |-> name, params |-> params,
                                         sg_publish_data |-> sg_publish_data,
                                         before |-> scene])
              /\ scene' = h.scene
              /\ error' = h.raised
              /\ pc' = AfterCall(h)
    /\ idx' = idx + 1
    /\ UNCHANGED <<genVars, last, batch>>

\* the loop is exhausted and execute_multiple_actions returns
Return ==
    /\ pc = "running"
    /\ idx = Len(batch)
    /\ pc' = "returned"
    /\ UNCHANGED <<genVars, execVars, batch, idx, calls, error>>

----------------------------------------------------------------------------
(* Specifications *)

\* scenes a call can start in: any nodes the user or earlier calls made
InitialScenes == SeqUpTo({"img"}, MaxScene)

Requests ==
    [sg_publish_data : Publishes, actions : SeqUpTo(AllNames, MaxLen),
     ui_area : UiAreas]

Init0 ==
    /\ instances = <<>>
    /\ last = NoCall
    /\ pc = "idle"
    /\ batch = <<>>
    /\ idx = 0
    /\ calls = <<>>
    /\ error = "none"

\* a direct call of execute_action in some scene
Init ==
    /\ Init0
    /\ request = [sg_publish_data |-> "publish_a", actions |-> <<>>, ui_area |-> "main"]
    /\ scene \in InitialScenes

Next == ExecuteAction

Spec == Init /\ [][Next]_vars

\* a call of generate_actions with some arguments
InitGen ==
    /\ Init0
    /\ request \in Requests
    /\ scene = <<>>

NextGen == GenerateActions

SpecGen == InitGen /\ [][NextGen]_vars

\* a call of execute_multiple_actions in the empty scene
InitBatch ==
    /\ Init0
    /\ request = [sg_publish_data |-> "publish_a", actions |-> <<>>, ui_area |-> "main"]
    /\ scene = <<>>

NextBatch == ExecuteMultipleActions \/ Iterate \/ Return

SpecBatch == InitBatch /\ [][NextBatch]_vars

----------------------------------------------------------------------------
(* Properties of generate_actions, checked under SpecGen *)

InstanceKeys == {"name", "params", "caption", "description"}

\* C1: generate_actions returns at least one action instance for each item
\* of the actions parameter: every name in actions is the name of a returned
\* entry.
C1_EveryActionReturned ==
    pc = "generated" =>
        \A n \in Range(request.actions) :
            \E i \in 1..Len(instances) : instances[i].name = n

\* C2: every entry returned by generate_actions is a dictionary with the
\* keys name, params, caption and description, and its name is one of the
\* names passed in via the actions parameter.
C2_InstancesWellFormed ==
    pc = "generated" =>
        \A i \in 1..Len(instances) :
            /\ DOMAIN instances[i] = InstanceKeys
            /\ instances[i].name \in Range(request.actions)

C2_Witness ==
    /\ pc = "generated"
    /\ Len(request.actions) = 2
    /\ Len(instances) = 2
    /\ request.ui_area = "details"

----------------------------------------------------------------------------
(* Properties of execute_action, checked under Spec *)

\* the helper that implements each action
ImplementedBy ==
    [merge |-> "_merge", file_sop |-> "_file_sop", import |-> "_import",
     stage_import |-> "_stage_import", file_cop |-> "_file_cop",
     materialx_image |-> "_materialx_image",
     materialx_folder |-> "_materialx_folder",
     component_builder |-> "_component_builder",
     usd_reference |-> "_usd_reference", usd_sublayer |-> "_usd_sublayer"]

\* nodes the latest execute_action call added to the scene
Created == Len(scene) - Len(last.before)

Succeeded == last.called /\ last.raised = "none"

\* C3: the names generate_actions can return are the ten action names, and
\* execute_action with any of them invokes exactly one helper, the one that
\* implements that action.
C3_DispatchCoversGenerated ==
    /\ GeneratableNames = DOMAIN ImplementedBy
    /\ (last.called /\ last.name \in GeneratableNames) =>
            last.helpers = <<ImplementedBy[last.name]>>

C3_Witness ==
    /\ Succeeded
    /\ last.name = "stage_import"
    /\ last.helpers = <<"_stage_import">>
    /\ Created = 2

\* C6: _merge checks the path first: when it does not exist the call raises
\* "File not found on disk", the host merge is never called and the scene is
\* unchanged; when it exists the host merge is called exactly once, with
\* overwrite_on_conflict disabled.
C6_MergeChecksPath ==
    (last.called /\ last.name = "merge") =>
        IF ~last.exists
        THEN /\ last.raised = "File not found on disk"
             /\ last.merges = <<>>
             /\ scene = last.before
        ELSE /\ Len(last.merges) = 1
             /\ last.merges[1].overwrite_on_conflict = FALSE

C6_Witness ==
    /\ last.called
    /\ last.name = "merge"
    /\ ~last.exists
    /\ last.raised = "File not found on disk"
    /\ scene = <<"img">>

\* C7 as claimed: one successful execute_action call with any of the ten
\* action names creates at least 1 and at most 5 nodes.
C7_OneToFiveNodes ==
    (Succeeded /\ last.name \in Range(KnownNames)) =>
        (Created >= 1 /\ Created <= 5)

\* image nodes of _materialx_folder that get a node of their own when wired
Wirable(paths) ==
    Cardinality({i \in 1..Len(paths) : paths[i] \in {"Normal", "Displacement"}})

\* C7 as amended: the number of nodes a successful call creates is fixed by
\* the action: 2 for import, file_sop and stage_import, 1 for usd_reference
\* and usd_sublayer, 1 or 2 for file_cop, 0 or 1 for materialx_image, 6 for
\* component_builder, for materialx_folder none or one per texture path plus
\* at most one per Normal or Displacement image, and no createNode call at
\* all for merge.
C7_NodesPerAction ==
    Succeeded =>
        /\ last.name \in {"import", "file_sop", "stage_import"} => Created = 2
        /\ last.name \in {"usd_reference", "usd_sublayer"} => Created = 1
        /\ last.name = "file_cop" => Created \in 1..2
        /\ last.name = "materialx_image" => Created \in 0..1
        /\ last.name = "component_builder" => (Created = 6 /\ last.notes = 1)
        /\ last.name = "materialx_folder" =>
              \/ Created = 0
              \/ /\ Len(last.paths) >= 1
                 /\ Created >= Len(last.paths)
                 /\ Created <= Len(last.paths) + Wirable(last.paths)
        /\ last.name = "merge" => last.ncreate = 0

C7_Witness ==
    /\ Succeeded
    /\ last.name = "component_builder"
    /\ Created = 6

\* C8 as claimed: in every action a failing host node-creation call ends the
\* action and propagates to the caller.
C8_HostFailurePropagates ==
    (last.called /\ last.failed # <<>>) =>
        /\ last.raised = last.failed[1].exc
        /\ last.ncreate = last.failed[1].call

\* the one failure a helper recovers from: hou.OperationFailed raised by the
\* first createNode call of import, file_sop or file_cop
Recovered ==
    /\ last.name \in {"import", "file_sop", "file_cop"}
    /\ last.failed # <<>>
    /\ last.failed[1] = [call |-> 1, exc |-> "OperationFailed"]

\* C8 as amended: a failing node-creation call ends the action and
\* propagates, except that import, file_sop and file_cop catch
\* hou.OperationFailed from their first createNode call and create the node
\* by another route; a failure of that route propagates.
C8_FailurePropagatesUnlessRecovered ==
    last.called =>
        /\ (last.failed # <<>> /\ ~Recovered) =>
              /\ Len(last.failed) = 1
              /\ last.raised = last.failed[1].exc
              /\ last.ncreate = last.failed[1].call
        /\ Recovered =>
              /\ Len(last.failed) <= 2
              /\ Len(last.failed) = 1 => (last.raised = "none" /\ last.ncreate >= 2)
              /\ Len(last.failed) = 2 =>
                    /\ last.raised = last.failed[2].exc
                    /\ last.ncreate = last.failed[2].call

C8_Witness ==
    /\ Succeeded
    /\ last.name = "file_cop"
    /\ last.failed = <<[call |-> 1, exc |-> "OperationFailed"]>>
    /\ Created = 2

\* C9: execute_action with a name that is none of the ten action names
\* invokes no helper and leaves the scene as it was; for any name at most
\* one helper is invoked.
C9_UnknownNameIsNoOp ==
    last.called =>
        /\ Len(last.helpers) <= 1
        /\ last.name \notin Range(KnownNames) =>
              /\ last.helpers = <<>>
              /\ scene = last.before
              /\ last.merges = <<>>
              /\ last.ncreate = 0
              /\ last.notes = 0
              /\ last.raised = "none"

C9_Witness ==
    /\ last.called
    /\ last.name = UnknownName
    /\ last.helpers = <<>>
    /\ scene = <<"img">>

----------------------------------------------------------------------------
(* Properties of execute_multiple_actions, checked under SpecBatch *)

IsPrefix(a, b) ==
    /\ Len(a) <= Len(b)
    /\ \A i \in 1..Len(a) : a[i] = b[i]

SameArguments(call, item) ==
    /\ call.name = item.name
    /\ call.params = item.params
    /\ call.sg_publish_data = item.sg_publish_data

\* C4: execute_multiple_actions dispatches each item of the actions list to
\* execute_action once, in list order, with that item's name, params and
\* sg_publish_data; when no action raises, the calls are the list, item for
\* item.
C4_DispatchInOrder ==
    /\ Len(calls) <= Len(batch)
    /\ \A k \in 1..Len(calls) : SameArguments(calls[k], batch[k])
    /\ pc = "returned" => (Len(calls) = Len(batch) /\ error = "none")

C4_Witness ==
    /\ pc = "returned"
    /\ Len(calls) = 2
    /\ batch[1].name # batch[2].name
    /\ batch[1].sg_publish_data # batch[2].sg_publish_data

\* C5: when the action at position i raises, execute_multiple_actions makes
\* no further call, the exception leaves it, and the scene still holds what
\* the actions before position i made.
C5_StopsOnError ==
    /\ (error # "none") <=> (pc = "raised")
    /\ pc = "raised" =>
          /\ Len(calls) = idx
          /\ idx >= 1
          /\ \A k \in 1..(idx - 1) : IsPrefix(calls[k].before, calls[k + 1].before)
          /\ IsPrefix(calls[idx].before, scene)

C5_Witness ==
    /\ pc = "raised"
    /\ idx = 1
    /\ Len(batch) = 2
    /\ Len(calls) = 1

C5_WitnessKept ==
    /\ pc = "raised"
    /\ idx = 2
    /\ calls[2].before # <<>>

====
